---- MODULE Spec2Model ----
(***************************************************************************)
(* A model of danmaku2ass.py: ReadComments (reading the comment elements   *)
(* of the input files and sorting the records), ProcessComments (the lane  *)
(* allocator: TestFreeRows, FindAlternativeRow, MarkCommentRow) and the    *)
(* outcome of WriteCommentBilibiliPositioned, with GetZoomFactor and its    *)
(* cache and ConvertColor.                                                 *)
(*                                                                         *)
(* Conventions.  A comment is the 9-tuple the reader yields,               *)
(*   (timeline, timestamp, no, comment, pos, color, size, height, width),  *)
(* so the Python index c[k] is the TLA+ index c[k+1].  Python's None is    *)
(* the empty tuple <<>> (both are "falsy").  A text is the sequence of its *)
(* code points (10 is the newline).  Floats are exact rationals <<n, d>>   *)
(* with d > 0 in lowest terms; times and durations are integers.  The      *)
(* string "bilipos" in the pos field is the number BiliPos.                *)
(*                                                                         *)
(* The two values of the flag `reduced` are two runs of ProcessComments on *)
(* the same comment list: rows[r] and events[r] are the lane grids and the *)
(* output of the run with reduced = r.                                     *)
(***************************************************************************)
EXTENDS Integers, Sequences, FiniteSets, TLC

VARIABLES
    cfg,       \* the arguments of Danmaku2ASS for this run
    pc,        \* "read", "process", "done" or "error" (an exception escaped)
    files,     \* ReadComments: the number of input files opened so far
    no,        \* ReadCommentsBilibili: the enumerate index i of the next element
    nread,     \* the number of elements read so far, over all files
    comments,  \* ReadComments: the list `comments`
    idx,       \* ProcessComments: the number of comments handled
    rows,      \* ProcessComments: rows[reduced][pos][row]
    events,    \* the Dialogue lines written, in order, per run
    Cached_Size,   \* GetZoomFactor.Cached_Size, None while the attribute is unset
    Cached_Result  \* GetZoomFactor.Cached_Result, likewise

vars == <<cfg, pc, files, no, nread, comments, idx, rows, events,
          Cached_Size, Cached_Result>>

\* ------------------------------------------------------------------ bounds

MaxElems == 3
MaxFiles == 2
MaxTime == 2
MaxDim == 3

\* ------------------------------------------------------- exact rationals

RECURSIVE Gcd(_, _)
Gcd(a, b) == IF b = 0 THEN a ELSE Gcd(b, a % b)

Abs(n) == IF n < 0 THEN -n ELSE n

\* n/d for d # 0, in lowest terms with a positive denominator
Frac(n, d) ==
    LET g == Gcd(Abs(n), Abs(d))
        s == IF d < 0 THEN -1 ELSE 1
    IN  <<(s * n) \div g, (s * d) \div g>>

R(n) == <<n, 1>>
RAdd(a, b) == Frac(a[1] * b[2] + b[1] * a[2], a[2] * b[2])
RSub(a, b) == Frac(a[1] * b[2] - b[1] * a[2], a[2] * b[2])
RMul(a, b) == Frac(a[1] * b[1], a[2] * b[2])
\* a / b; the caller handles b = 0 (Python raises ZeroDivisionError)
RDiv(a, b) == Frac(a[1] * b[2], a[2] * b[1])
RIsZero(a) == a[1] = 0
RLt(a, b) == a[1] * b[2] < b[1] * a[2]
RLe(a, b) == a[1] * b[2] <= b[1] * a[2]
\* math.ceil
Ceil(a) == -((-a[1]) \div a[2])

\* ------------------------------------------------------------------- text

NL == 10

\* s.replace("/n", "\n"): "/" is 47 and "n" is 110
RECURSIVE ReplaceSlashN(_)
ReplaceSlashN(s) ==
    IF Len(s) = 0 THEN <<>>
    ELSE IF Len(s) >= 2 /\ s[1] = 47 /\ s[2] = 110
         THEN <<NL>> \o ReplaceSlashN(SubSeq(s, 3, Len(s)))
         ELSE <<s[1]>> \o ReplaceSlashN(Tail(s))

\* s.count("\n")
CountNL(s) == Cardinality({k \in 1..Len(s) : s[k] = NL})

\* max(map(len, s.split("\n"))): cur is the length of the line being read
RECURSIVE MaxLine(_, _, _)
MaxLine(s, cur, best) ==
    IF Len(s) = 0 THEN (IF cur > best THEN cur ELSE best)
    ELSE IF s[1] = NL
         THEN MaxLine(Tail(s), 0, IF cur > best THEN cur ELSE best)
         ELSE MaxLine(Tail(s), cur + 1, best)

CalculateLength(s) == MaxLine(s, 0, 0)

\* Python's s < t on strings: lexicographic on the code points
RECURSIVE StrLt(_, _)
StrLt(s, t) ==
    IF Len(t) = 0 THEN FALSE
    ELSE IF Len(s) = 0 THEN TRUE
    ELSE IF s[1] # t[1] THEN s[1] < t[1]
    ELSE StrLt(Tail(s), Tail(t))

\* ---------------------------------------------------------- comment tuple

None == <<>>
BiliPos == 4

Timeline(c) == c[1]
Timestamp(c) == c[2]
SeqNo(c) == c[3]
Text(c) == c[4]
Pos(c) == c[5]
Color(c) == c[6]
Size(c) == c[7]
Height(c) == c[8]
Width(c) == c[9]

\* isinstance(i[4], int)
IsLane(c) == Pos(c) \in 0..3

\* ---------------------------------------------------- ReadCommentsBilibili

\* An element <d p="p0,p1,p2,p3,p4">text</d> of an input file.  The value the
\* generator yields for it as element number i, or None when it yields
\* nothing: the assertion on p[1] fails (caught, a warning), the element has
\* no child node, or it is a scripted comment ("8").
Yield(e, i, fontsize) ==
    IF e.p1 \notin {"1", "4", "5", "6", "7", "8"} THEN None
    ELSE IF Len(e.text) = 0 THEN None
    ELSE IF e.p1 \in {"1", "4", "5", "6"} THEN
        LET c == ReplaceSlashN(e.text)
            size == RDiv(RMul(R(e.p2), fontsize), R(25))
            pos == CASE e.p1 = "1" -> 0 [] e.p1 = "4" -> 2
                     [] e.p1 = "5" -> 1 [] e.p1 = "6" -> 3
        IN  <<e.p0, e.p4, i, c, pos, e.p3, size,
              RMul(R(CountNL(c) + 1), size), RMul(R(CalculateLength(c)), size)>>
    ELSE IF e.p1 = "7" THEN
        <<e.p0, e.p4, i, e.text, BiliPos, e.p3, R(e.p2), R(0), R(0)>>
    ELSE None

\* ------------------------------------------------------------ comments.sort()

\* The first field on which two comment tuples differ, 0 when they are equal
FirstDiff(a, b) ==
    IF a = b THEN 0
    ELSE CHOOSE k \in 1..9 : a[k] # b[k] /\ \A j \in 1..(k - 1) : a[j] = b[j]

\* Comparing the tuples reaches the pos fields and one is an int, the other
\* the str "bilipos": Python raises TypeError
Uncomparable(a, b) ==
    FirstDiff(a, b) = 5 /\ (Pos(a) = BiliPos) # (Pos(b) = BiliPos)

\* (mutant) only the first field is compared
TupleLtTimelineOnly(a, b) == a[1] < b[1]

\* Python's a < b on two comment tuples (not Uncomparable)
TupleLt(a, b) ==
    LET k == FirstDiff(a, b)
    IN  CASE k = 0 -> FALSE
          [] k \in {1, 2, 3, 5, 6} -> a[k] < b[k]
          [] k = 4 -> StrLt(a[k], b[k])
          [] k \in {7, 8, 9} -> RLt(a[k], b[k])

\* list.sort() is a stable comparison sort: x goes behind every element that
\* is not greater than it
RECURSIVE Insert(_, _)
Insert(s, x) ==
    IF Len(s) = 0 THEN <<x>>
    ELSE IF TupleLt(x, s[Len(s)])
         THEN Append(Insert(SubSeq(s, 1, Len(s) - 1), x), s[Len(s)])
         ELSE Append(s, x)

RECURSIVE SortFrom(_, _)
SortFrom(done, rest) ==
    IF Len(rest) = 0 THEN done ELSE SortFrom(Insert(done, rest[1]), Tail(rest))

Sort(s) == SortFrom(<<>>, s)

\* Sorting has to compare two tuples that tie up to the pos field, and that
\* comparison raises
SortRaises(s) ==
    \E i, j \in 1..Len(s) : i < j /\ Uncomparable(s[i], s[j])

\* ------------------------------------------------------------ TestFreeRows

UsableHeight(k) == k.height - k.bottomReserved

\* The loop of the branch c[4] in (1, 2): res rows are free so far, targetRow
\* is the occupant examined last
\* (mutant) the occupant's display duration is forgotten
StillBlocksNoDuration(targetRow, c, k) ==
    Timeline(targetRow) > Timeline(c)

\* targetRow[0] + duration_still > c[0], for an occupant targetRow
StillBlocks(targetRow, c, k) ==
    Timeline(targetRow) + k.duration_still > Timeline(c)

RECURSIVE StillLoop(_, _, _, _, _, _)
StillLoop(grid, c, k, row, res, targetRow) ==
    IF ~(row < UsableHeight(k) /\ RLt(R(res), Height(c))) THEN res
    ELSE LET cell == grid[row]
         IN  IF /\ targetRow # cell
                /\ cell # None
                /\ StillBlocks(cell, c, k)
             THEN res
             ELSE StillLoop(grid, c, k, row + 1, res + 1, cell)

\* (mutant) the except branch leaves the threshold at c[0]
ThresholdTimeNoMargin(c, k) ==
    LET den == RAdd(Width(c), R(k.width))
    IN  IF RIsZero(den)
        THEN R(Timeline(c))
        ELSE RSub(R(Timeline(c)),
                  RMul(R(k.duration_marquee), RSub(R(1), RDiv(R(k.width), den))))

\* thresholdTime, with its except ZeroDivisionError branch
ThresholdTime(c, k) ==
    LET den == RAdd(Width(c), R(k.width))
    IN  IF RIsZero(den)
        THEN RSub(R(Timeline(c)), R(k.duration_marquee))
        ELSE RSub(R(Timeline(c)),
                  RMul(R(k.duration_marquee), RSub(R(1), RDiv(R(k.width), den))))

\* (mutant) only the threshold is compared: the occupant's clearing time is
\* not looked at
MarqueeBlocksThresholdOnly(targetRow, c, thresholdTime, k) ==
    RLt(thresholdTime, R(Timeline(targetRow)))

\* The condition of the inner `if` for an occupant targetRow (not None), inside
\* its try: the `or` is evaluated left to right, and a ZeroDivisionError in its
\* second operand is passed over (the row counts as free)
MarqueeBlocks(targetRow, c, thresholdTime, k) ==
    IF RLt(thresholdTime, R(Timeline(targetRow))) THEN TRUE
    ELSE LET den == RAdd(Width(targetRow), R(k.width))
         IN  IF RIsZero(den) THEN FALSE
             ELSE RLt(R(Timeline(c)),
                      RAdd(R(Timeline(targetRow)),
                           RDiv(RMul(Width(targetRow), R(k.duration_marquee)), den)))

RECURSIVE MarqueeLoop(_, _, _, _, _, _)
MarqueeLoop(grid, c, k, row, res, targetRow) ==
    IF ~(row < UsableHeight(k) /\ RLt(R(res), Height(c))) THEN res
    ELSE LET cell == grid[row]
         IN  IF /\ targetRow # cell
                /\ cell # None
                /\ MarqueeBlocks(cell, c, ThresholdTime(c, k), k)
             THEN res
             ELSE MarqueeLoop(grid, c, k, row + 1, res + 1, cell)

\* (mutant) the loops lose their guard res < c[7]: the rows are counted up to
\* the end of the grid
TestFreeRowsNoHeightGuard(grids, c, row, k) ==
    LET tall == [c EXCEPT ![8] = R(UsableHeight(k))]
    IN  IF Pos(c) \in {1, 2}
        THEN StillLoop(grids[Pos(c)], tall, k, row, 0, None)
        ELSE MarqueeLoop(grids[Pos(c)], tall, k, row, 0, None)

\* grids is the list `rows` of one run: one grid per pos value
TestFreeRows(grids, c, row, k) ==
    IF Pos(c) \in {1, 2}
    THEN StillLoop(grids[Pos(c)], c, k, row, 0, None)
    ELSE MarqueeLoop(grids[Pos(c)], c, k, row, 0, None)

\* ------------------------------------------------- the scan of ProcessComments

RowMax(c, k) == RSub(R(UsableHeight(k)), Height(c))

\* `while row <= rowmax: ... else: ...` from `row`: <<TRUE, row, probes>>
\* when the comment is placed at row, <<FALSE, row, probes>> when the loop
\* runs out; probes lists the calls of TestFreeRows made on the way, each as
\* <<row, freerows>>
RECURSIVE ScanFrom(_, _, _, _)
ScanFrom(grids, c, k, row) ==
    IF ~RLe(R(row), RowMax(c, k)) THEN <<FALSE, row, <<>>>>
    ELSE LET freerows == TestFreeRows(grids, c, row, k)
         IN  IF RLe(Height(c), R(freerows))
             THEN <<TRUE, row, <<<<row, freerows>>>>>>
             ELSE LET rest == ScanFrom(grids, c, k,
                                       row + (IF freerows # 0 THEN freerows ELSE 1))
                  IN  <<rest[1], rest[2], <<<<row, freerows>>>> \o rest[3]>>

\* ------------------------------------------------------- FindAlternativeRow

\* for row in range(n), from `row` on, with the current `res`
RECURSIVE FindLoop(_, _, _, _)
FindLoop(grid, n, row, res) ==
    IF row >= n THEN res
    ELSE IF grid[row] = None THEN row
    ELSE FindLoop(grid, n, row + 1,
                  IF Timeline(grid[row]) < Timeline(grid[res]) THEN row ELSE res)

FindAlternativeRow(grids, c, k) ==
    FindLoop(grids[Pos(c)], UsableHeight(k) - Ceil(Height(c)), 0, 0)

\* ----------------------------------------------------------- MarkCommentRow

\* (mutant) the height is rounded down: int(c[7]) in place of math.ceil(c[7])
MarkCommentRowFloor(grids, c, row, k) ==
    [grids EXCEPT ![Pos(c)] =
        [i \in 0..UsableHeight(k) |->
            IF row <= i /\ i < row + (Height(c)[1] \div Height(c)[2])
            THEN c ELSE @[i]]]

\* The grid has the cells 0..UsableHeight; the IndexError of a cell beyond it
\* ends the loop
MarkCommentRow(grids, c, row, k) ==
    [grids EXCEPT ![Pos(c)] =
        [i \in 0..UsableHeight(k) |->
            IF row <= i /\ i < row + Ceil(Height(c)) THEN c ELSE @[i]]]

\* ------------------------------------------------------------ GetZoomFactor

\* The result of the except branch
Identity == <<R(1), R(0), R(0)>>

\* The body of the second try for sizes <<width, height>>: the triple
\* <<f, dx, dy>> of rationals, or None where a division raises
\* ZeroDivisionError
ZoomTry(SourceSize, TargetSize) ==
    IF SourceSize[2] = 0 \/ TargetSize[2] = 0 THEN None
    ELSE LET SourceAspect == Frac(SourceSize[1], SourceSize[2])
             TargetAspect == Frac(TargetSize[1], TargetSize[2])
         IN  IF RLt(TargetAspect, SourceAspect) THEN      \* narrower
                 IF SourceSize[1] = 0 \/ RIsZero(SourceAspect) THEN None
                 ELSE <<Frac(TargetSize[1], SourceSize[1]), R(0),
                        RDiv(RSub(R(TargetSize[2]),
                                  RDiv(R(TargetSize[1]), SourceAspect)), R(2))>>
             ELSE IF RLt(SourceAspect, TargetAspect) THEN \* wider
                 <<Frac(TargetSize[2], SourceSize[2]),
                   RDiv(RSub(R(TargetSize[1]),
                             RMul(R(TargetSize[2]), SourceAspect)), R(2)), R(0)>>
             ELSE IF SourceSize[1] = 0 THEN None
             ELSE <<Frac(TargetSize[1], SourceSize[1]), R(0), R(0)>>

\* (mutant) the except branch returns the identity without storing it: the
\* cache keeps the result of the sizes before
GetZoomFactorStale(cSize, cResult, SourceSize, TargetSize) ==
    IF cSize # None /\ cSize = <<SourceSize, TargetSize>>
    THEN [Size |-> cSize, Result |-> cResult]
    ELSE LET t == ZoomTry(SourceSize, TargetSize)
         IN  [Size |-> <<SourceSize, TargetSize>>,
              Result |-> IF t # None THEN t
                         ELSE IF cResult # None THEN cResult ELSE Identity]

\* One call from the cache <<cSize, cResult>>: the cache after it, whose
\* Result is also the value returned
GetZoomFactor(cSize, cResult, SourceSize, TargetSize) ==
    IF cSize # None /\ cSize = <<SourceSize, TargetSize>>
    THEN [Size |-> cSize, Result |-> cResult]
    ELSE LET t == ZoomTry(SourceSize, TargetSize)
         IN  [Size |-> <<SourceSize, TargetSize>>,
              Result |-> IF t = None THEN Identity ELSE t]

\* ---------------------------------------- WriteCommentBilibiliPositioned

\* Bilibili player version 2014
BiliPlayerSize == <<672, 438>>

\* Texts of positioned comments, as code points:
\*   [0,0,1,1,"a"]  a well-formed payload
PayloadValid == <<91, 48, 44, 48, 44, 49, 44, 49, 44, 34, 97, 34, 93>>
\*   []  a list too short to hold the text: comment_args[4] raises IndexError
PayloadShort == <<91, 93>>
\*   5  JSON that is no list: safe_list(5) raises TypeError
PayloadScalar == <<53>>
\*   [0,0,1,null,"a"]  float(None) raises TypeError
PayloadNull == <<91, 48, 44, 48, 44, 49, 44, 110, 117, 108, 108, 44, 34, 97, 34, 93>>
\*   [0,0,1,"b","a"]  float("b") raises ValueError
PayloadNonNumeric == <<91, 48, 44, 48, 44, 49, 44, 34, 98, 34, 44, 34, 97, 34, 93>>

\* The exception the body of the try raises for the payload text, "" when it
\* raises none.  Every other text of the model (letters and newlines) is not
\* JSON: json.loads raises JSONDecodeError, a ValueError.
PayloadRaises(text) ==
    CASE text = PayloadValid -> ""
      [] text = PayloadShort -> "IndexError"
      [] text = PayloadScalar -> "TypeError"
      [] text = PayloadNull -> "TypeError"
      [] text = PayloadNonNumeric -> "ValueError"
      [] OTHER -> "ValueError"

\* What the call does: "written" (one Dialogue line), "dropped" (the exception
\* is caught: a warning, no line) or "raised" (the exception leaves the call)
WriteCommentBilibiliPositioned(c) ==
    LET e == PayloadRaises(Text(c))
    IN  IF e = "" THEN "written"
        ELSE IF e \in {"IndexError", "ValueError"} THEN "dropped"
        ELSE "raised"

\* -------------------------------------------------------------- ConvertColor

\* "%02X" of a byte, as code points ("0".."9" are 48..57, "A".."F" 65..70)
HexDigit(d) == IF d < 10 THEN 48 + d ELSE 55 + d
Hex2(x) == <<HexDigit(x \div 16), HexDigit(x % 16)>>

\* The rows of the BT.601 to BT.709 matrix.  A coefficient is hi * 10^-6 +
\* lo * 10^-12 with 0 <= lo < 10^6 (the literal of the source to twelve
\* decimals, in two limbs so that every product stays a machine integer).
\* With them ClipByte yields the same byte as the float arithmetic of the
\* source for each of the 2^24 colours.
Million == 1000000
Bt709 ==
    << << <<9563, 840881>>, <<32172, 545402>>, <<958263, 613717>> >>,
       << <<-104940, 668579>>, <<1172314, 781919>>, <<-67376, 549502>> >>,
       << <<913489, 123740>>, <<78585, 363725>>, <<7925, 512535>> >> >>

\* ClipByte(R * m[1] + G * m[2] + B * m[3]) for the matrix row m: 255 above
\* 255, 0 below 0, else round(), which rounds a half to the even neighbour
ClipByte(m, cR, cG, cB) ==
    LET his == cR * m[1][1] + cG * m[2][1] + cB * m[3][1]
        los == cR * m[1][2] + cG * m[2][2] + cB * m[3][2]
        a == his + (los \div Million)
        rem == los % Million
        q == a \div Million
        r == a % Million
    IN  IF a < 0 THEN 0
        ELSE IF a > 255 * Million \/ (a = 255 * Million /\ rem > 0) THEN 255
        ELSE IF r > 500000 \/ (r = 500000 /\ rem > 0) THEN q + 1
        ELSE IF r = 500000 /\ rem = 0 /\ q % 2 = 1 THEN q + 1
        ELSE q

\* "%02X%02X%02X" % (B, G, R): the plain channel-order swap
SwapBGR(RGB) ==
    Hex2(RGB % 256) \o Hex2((RGB \div 256) % 256) \o Hex2((RGB \div 65536) % 256)

\* The three clipped bytes of the matrix conversion
MatrixBGR(RGB) ==
    LET cR == (RGB \div 65536) % 256
        cG == (RGB \div 256) % 256
        cB == RGB % 256
    IN  Hex2(ClipByte(Bt709[1], cR, cG, cB)) \o Hex2(ClipByte(Bt709[2], cR, cG, cB))
            \o Hex2(ClipByte(Bt709[3], cR, cG, cB))

ConvertColor(RGB, width, height) ==
    IF RGB = 0 THEN <<48, 48, 48, 48, 48, 48>>
    ELSE IF RGB = 16777215 THEN <<70, 70, 70, 70, 70, 70>>
    ELSE IF width < 1280 /\ height < 576 THEN SwapBGR(RGB)
    ELSE MatrixBGR(RGB)

\* The colour tag of a Dialogue line, None when the line has none.  Both
\* writers call ConvertColor(c[5]) with the colour alone, so width and height
\* are the defaults of its signature.
ColorTag(c) ==
    IF Color(c) # 16777215 THEN ConvertColor(Color(c), 1280, 576) ELSE None

\* ----------------------------------------------------------- ProcessComments

\* filter_regex.search(i[3]) for a regular expression that is one literal
\* character f
Search(f, text) == \E j \in 1..Len(text) : text[j] = f

Skip(c, k) ==
    \E j \in 1..Len(k.filters_regex) : Search(k.filters_regex[j], Text(c))

\* A Dialogue line: the comment, its row, how the row was chosen, and its
\* colour tag
Event(c, row, via) == [c |-> c, row |-> row, via |-> via, color |-> ColorTag(c)]

\* MarkCommentRow(rows, i, row) and WriteComment(f, i, row, ...)
PlaceAt(grids, out, c, k, row, via) ==
    [rows |-> MarkCommentRow(grids, c, row, k),
     events |-> Append(out, Event(c, row, via)),
     raised |-> FALSE]

\* (mutant) the comment is force-placed whatever the flag says
ElseBranchAlwaysPlace(grids, out, c, k, reduced) ==
    PlaceAt(grids, out, c, k, FindAlternativeRow(grids, c, k), "fallback")

\* (mutant) the flag is read the wrong way round
ElseBranchInverted(grids, out, c, k, reduced) ==
    IF reduced
    THEN PlaceAt(grids, out, c, k, FindAlternativeRow(grids, c, k), "fallback")
    ELSE [rows |-> grids, events |-> out, raised |-> FALSE]

\* The else branch of the while loop: the scan ran out of rows
ElseBranch(grids, out, c, k, reduced) ==
    IF ~reduced
    THEN PlaceAt(grids, out, c, k, FindAlternativeRow(grids, c, k), "fallback")
    ELSE [rows |-> grids, events |-> out, raised |-> FALSE]

\* The body of the for loop for comment c in the run with the given flag
\* `reduced`, from that run's grids and output: the new grids and output, and
\* whether an exception leaves ProcessComments
ProcessComment(grids, out, c, k, reduced) ==
    IF IsLane(c) THEN
        IF Skip(c, k) THEN [rows |-> grids, events |-> out, raised |-> FALSE]
        ELSE LET s == ScanFrom(grids, c, k, 0)
             IN  IF s[1] THEN PlaceAt(grids, out, c, k, s[2], "scan")
                 ELSE ElseBranch(grids, out, c, k, reduced)
    ELSE LET w == WriteCommentBilibiliPositioned(c)
         IN  [rows |-> grids,
              events |-> IF w = "written"
                         THEN Append(out, Event(c, 0, "bilipos")) ELSE out,
              raised |-> (w = "raised")]

\* ---------------------------------------------------------------- actions

\* Danmaku2ASS is called with one of the configurations in Configs
InitWith(Configs) ==
    /\ cfg \in Configs
    /\ pc = "read"
    /\ files = 1
    /\ no = 0
    /\ nread = 0
    /\ comments = <<>>
    /\ idx = 0
    /\ rows = [r \in BOOLEAN |-> [p \in 0..3 |-> [i \in 0..UsableHeight(cfg) |-> None]]]
    /\ events = [r \in BOOLEAN |-> <<>>]
    /\ Cached_Size = None
    /\ Cached_Result = None

\* ReadCommentsBilibili handles the next element of the current file
ReadElement(e) ==
    /\ pc = "read"
    /\ nread < MaxElems
    /\ LET y == Yield(e, no, cfg.fontsize)
       IN  comments' = IF y = None THEN comments ELSE Append(comments, y)
    /\ no' = no + 1
    /\ nread' = nread + 1
    /\ UNCHANGED <<cfg, pc, files, idx, rows, events, Cached_Size, Cached_Result>>

\* ReadComments goes on to the next input file
NextFile ==
    /\ pc = "read"
    /\ files < MaxFiles
    /\ files' = files + 1
    /\ no' = 0
    /\ UNCHANGED <<cfg, pc, nread, comments, idx, rows, events, Cached_Size, Cached_Result>>

\* ReadComments sorts and returns; ProcessComments starts
FinishRead ==
    /\ pc = "read"
    /\ IF SortRaises(comments)
       THEN pc' = "error" /\ UNCHANGED comments
       ELSE pc' = "process" /\ comments' = Sort(comments)
    /\ UNCHANGED <<cfg, files, no, nread, idx, rows, events, Cached_Size, Cached_Result>>

\* One pass of the for loop of ProcessComments, in both runs
ProcessNext ==
    /\ pc = "process"
    /\ idx < Len(comments)
    /\ LET c == comments[idx + 1]
           res == [r \in BOOLEAN |-> ProcessComment(rows[r], events[r], c, cfg, r)]
       IN  IF res[FALSE].raised
           THEN pc' = "error" /\ UNCHANGED <<idx, rows, events>>
           ELSE /\ idx' = idx + 1
                /\ rows' = [r \in BOOLEAN |-> res[r].rows]
                /\ events' = [r \in BOOLEAN |-> res[r].events]
                /\ UNCHANGED pc
       \* a positioned comment: GetZoomFactor is called ahead of the try
    /\ IF IsLane(comments[idx + 1])
       THEN UNCHANGED <<Cached_Size, Cached_Result>>
       ELSE LET z == GetZoomFactor(Cached_Size, Cached_Result,
                                   BiliPlayerSize, <<cfg.width, cfg.height>>)
            IN  Cached_Size' = z.Size /\ Cached_Result' = z.Result
    /\ UNCHANGED <<cfg, files, no, nread, comments>>

\* GetZoomFactor(SourceSize, TargetSize) is called
CallGetZoomFactor(SourceSize, TargetSize) ==
    /\ LET z == GetZoomFactor(Cached_Size, Cached_Result, SourceSize, TargetSize)
       IN  Cached_Size' = z.Size /\ Cached_Result' = z.Result
    /\ UNCHANGED <<cfg, pc, files, no, nread, comments, idx, rows, events>>

\* The for loop ends and ProcessComments returns
Finish ==
    /\ pc = "process"
    /\ idx = Len(comments)
    /\ pc' = "done"
    /\ UNCHANGED <<cfg, files, no, nread, comments, idx, rows, events, Cached_Size, Cached_Result>>

\* ----------------------------------------------------------- input domains

\* <d p="p0,p1,p2,16777215,p4">text</d>
Elem(p0, p1, p2, p4, text) ==
    [p0 |-> p0, p1 |-> p1, p2 |-> p2, p3 |-> 16777215, p4 |-> p4, text |-> text]

Times == 0..MaxTime

\* "a", "a/na" (two lines), "/n" (two empty lines), "x"
TextA == <<97>>
TextTwoLines == <<97, 47, 110, 97>>
TextEmptyLines == <<47, 110>>
TextX == <<120>>

\* Top comments of heights 1, 1.5, 2 and 3 on a stage of 2 usable rows
LayoutConfigs ==
    {[width |-> 4, height |-> 3, bottomReserved |-> 1, fontsize |-> <<25, 2>>,
      duration_marquee |-> 2, duration_still |-> 2, filters_regex |-> <<>>]}

LayoutElems ==
    {Elem(t, "5", z, 0, x) : t \in Times, z \in {2, 3}, x \in {TextA, TextTwoLines}}

InitLayout == InitWith(LayoutConfigs)

NextLayout ==
    \/ \E e \in LayoutElems : ReadElement(e)
    \/ FinishRead
    \/ ProcessNext
    \/ Finish

SpecLayout == InitLayout /\ [][NextLayout]_vars

\* Top and Bottom comments of heights 1 and 1.5 on a stage of 3 rows
StillConfigs ==
    {[width |-> 4, height |-> 3, bottomReserved |-> 0, fontsize |-> <<25, 2>>,
      duration_marquee |-> 2, duration_still |-> 2, filters_regex |-> <<>>]}

StillElems ==
    {Elem(t, m, z, 0, TextA) : t \in Times, m \in {"5", "4"}, z \in {2, 3}}

InitStill == InitWith(StillConfigs)

NextStill ==
    \/ \E e \in StillElems : ReadElement(e)
    \/ FinishRead
    \/ ProcessNext
    \/ Finish

SpecStill == InitStill /\ [][NextStill]_vars

\* "aaa"
TextAAA == <<97, 97, 97>>

\* Scroll comments of widths 0, 1 and 3 at every time (and ScrollReverse
\* comments of width 1 at the first and the last time) on a stage of 2 rows
\* that is 1 wide
ScrollConfigs ==
    {[width |-> 1, height |-> 2, bottomReserved |-> 0, fontsize |-> <<25, 1>>,
      duration_marquee |-> 2, duration_still |-> 2, filters_regex |-> <<>>]}

ScrollElems ==
    {Elem(t, "1", 1, 0, x) : t \in Times, x \in {TextA, TextAAA, TextEmptyLines}}
        \cup {Elem(t, "6", 1, 0, TextA) : t \in {0, MaxTime}}

InitScroll == InitWith(ScrollConfigs)

NextScroll ==
    \/ \E e \in ScrollElems : ReadElement(e)
    \/ FinishRead
    \/ ProcessNext
    \/ Finish

SpecScroll == InitScroll /\ [][NextScroll]_vars

\* Scroll comments of widths 0 and 1 (and ScrollReverse comments of width 0)
\* on a stage of 2 rows that is 0 wide, where width + stage_width can be 0
ZeroWidthConfigs ==
    {[width |-> 0, height |-> 2, bottomReserved |-> 0, fontsize |-> <<25, 1>>,
      duration_marquee |-> 2, duration_still |-> 2, filters_regex |-> <<>>]}

ZeroWidthElems ==
    {Elem(t, "1", 1, 0, x) : t \in Times, x \in {TextA, TextEmptyLines}}
        \cup {Elem(t, "6", 1, 0, TextEmptyLines) : t \in Times}

InitZeroWidth == InitWith(ZeroWidthConfigs)

NextZeroWidth ==
    \/ \E e \in ZeroWidthElems : ReadElement(e)
    \/ FinishRead
    \/ ProcessNext
    \/ Finish

SpecZeroWidth == InitZeroWidth /\ [][NextZeroWidth]_vars

\* Comments of two input files with ties in the time and in the timestamp,
\* and an element that is skipped (p[1] is no comment mode)
ReadConfigs ==
    {[width |-> 4, height |-> 2, bottomReserved |-> 0, fontsize |-> <<25, 2>>,
      duration_marquee |-> 2, duration_still |-> 2, filters_regex |-> <<>>]}

ReadElems ==
    {Elem(t, "5", 2, ts, TextA) : t \in Times, ts \in {0, 1}}
        \cup {Elem(0, "9", 2, 0, TextA)}

InitRead == InitWith(ReadConfigs)

NextRead ==
    \/ \E e \in ReadElems : ReadElement(e)
    \/ NextFile
    \/ FinishRead
    \/ ProcessNext
    \/ Finish

SpecRead == InitRead /\ [][NextRead]_vars

\* Top comments of height 1 on a stage of 1 row and positioned comments, with
\* the filters x (the single filter) and " (a line of the filter file)
FilterConfigs ==
    {[width |-> 4, height |-> 1, bottomReserved |-> 0, fontsize |-> <<25, 1>>,
      duration_marquee |-> 2, duration_still |-> 2, filters_regex |-> <<120, 34>>]}

FilterElems ==
    {Elem(t, "5", 1, 0, x) : t \in Times, x \in {TextA, TextX}}
        \cup {Elem(t, "7", 1, 0, x) : t \in Times,
                x \in {PayloadValid, PayloadShort, PayloadNull}}

InitFilter == InitWith(FilterConfigs)

NextFilter ==
    \/ \E e \in FilterElems : ReadElement(e)
    \/ FinishRead
    \/ ProcessNext
    \/ Finish

SpecFilter == InitFilter /\ [][NextFilter]_vars

\* <d p="p0,p1,p2,p3,p4">text</d> with the colour p3
ElemColor(p0, p1, p2, p3, p4, text) ==
    [p0 |-> p0, p1 |-> p1, p2 |-> p2, p3 |-> p3, p4 |-> p4, text |-> text]

\* 0x000000, 0xFFFFFF, 0xFF0000 and 0x123456
Black == 0
White == 16777215
Red == 16711680
Blueish == 1193046

\* Coloured Top comments and a coloured positioned comment on a stage of
\* 1 x 2 and on one of 1280 x 576 (of which 574 rows are reserved)
ColorConfigs ==
    {[width |-> 1, height |-> 2, bottomReserved |-> 0, fontsize |-> <<25, 1>>,
      duration_marquee |-> 2, duration_still |-> 2, filters_regex |-> <<>>],
     [width |-> 1280, height |-> 576, bottomReserved |-> 574, fontsize |-> <<25, 1>>,
      duration_marquee |-> 2, duration_still |-> 2, filters_regex |-> <<>>]}

ColorElems ==
    {ElemColor(t, "5", 1, rgb, 0, TextA) : t \in Times, rgb \in {Red, Blueish}}
        \cup {ElemColor(0, "5", 1, rgb, 0, TextA) : rgb \in {Black, White}}
        \cup {ElemColor(0, "7", 1, Red, 0, PayloadValid)}

InitColor == InitWith(ColorConfigs)

NextColor ==
    \/ \E e \in ColorElems : ReadElement(e)
    \/ FinishRead
    \/ ProcessNext
    \/ Finish

SpecColor == InitColor /\ [][NextColor]_vars

\* GetZoomFactor called with every pair of sizes <<width, height>> whose
\* dimensions are in 0..MaxDim, in any order, so that calls hit and miss the
\* cache
Sizes == (0..MaxDim) \X (0..MaxDim)

InitZoom == InitWith(ReadConfigs)

NextZoom == \E SourceSize \in Sizes, TargetSize \in Sizes :
                CallGetZoomFactor(SourceSize, TargetSize)

SpecZoom == InitZoom /\ [][NextZoom]_vars

\* Top comments of heights 1 and 2 at every time and of heights 0, 1.5, 3 and
\* 5 at the last time, and Scroll comments of height 1, on a stage of 3 rows
ScanConfigs ==
    {[width |-> 1, height |-> 3, bottomReserved |-> 0, fontsize |-> <<25, 2>>,
      duration_marquee |-> 2, duration_still |-> 2, filters_regex |-> <<>>]}

ScanElems ==
    {Elem(t, "5", p2, 0, TextA) : t \in Times, p2 \in {2, 4}}
        \cup {Elem(MaxTime, "5", p2, 0, TextA) : p2 \in {0, 3, 6, 10}}
        \cup {Elem(t, "1", 2, 0, TextA) : t \in {0, MaxTime}}

InitScan == InitWith(ScanConfigs)

NextScan ==
    \/ \E e \in ScanElems : ReadElement(e)
    \/ FinishRead
    \/ ProcessNext
    \/ Finish

SpecScan == InitScan /\ [][NextScan]_vars

\* Top comments of heights 1 and 1.5 and of height 5 (more than the grid
\* holds), a Bottom comment, a Top comment the filter "x" matches and a
\* positioned comment, on a stage of 2 rows
FrameConfigs ==
    {[width |-> 1, height |-> 2, bottomReserved |-> 0, fontsize |-> <<25, 2>>,
      duration_marquee |-> 2, duration_still |-> 2, filters_regex |-> <<120>>]}

FrameElems ==
    {Elem(t, "5", p2, 0, TextA) : t \in Times, p2 \in {2, 3}}
        \cup {Elem(t, "5", 10, 0, TextA) : t \in {0, MaxTime}}
        \cup {Elem(0, "4", 2, 0, TextA), Elem(MaxTime, "5", 2, 0, TextX),
              Elem(0, "7", 1, 0, PayloadValid)}

InitFrame == InitWith(FrameConfigs)

NextFrame ==
    \/ \E e \in FrameElems : ReadElement(e)
    \/ FinishRead
    \/ ProcessNext
    \/ Finish

SpecFrame == InitFrame /\ [][NextFrame]_vars

\* ------------------------------------------------------------------ claims

\* The rows MarkCommentRow marks for the comment of a Dialogue line
MarkedRows(e) == {i \in 0..UsableHeight(cfg) :
                    e.row <= i /\ i < e.row + Ceil(Height(e.c))}

\* The display windows [appearance_time, appearance_time + duration_still)
\* of two comments have a point in common
WindowsIntersect(a, b) ==
    /\ Timeline(a) < Timeline(b) + cfg.duration_still
    /\ Timeline(b) < Timeline(a) + cfg.duration_still
    /\ cfg.duration_still > 0

\* Two Dialogue lines of one run, both of Top or both of Bottom comments that
\* the scan placed, whose marked rows share a row
SharedRowPair(r, i, j) ==
    /\ i < j
    /\ events[r][i].via = "scan" /\ events[r][j].via = "scan"
    /\ Pos(events[r][i].c) \in {1, 2}
    /\ Pos(events[r][i].c) = Pos(events[r][j].c)
    /\ MarkedRows(events[r][i]) \cap MarkedRows(events[r][j]) # {}

\* C1: in either run, two Top comments, or two Bottom comments, that the
\* free-run scan placed on row ranges sharing a row have display windows that
\* do not intersect.
C1_NoOverlap ==
    \A r \in BOOLEAN : \A i, j \in 1..Len(events[r]) :
        SharedRowPair(r, i, j)
            => ~WindowsIntersect(events[r][i].c, events[r][j].c)

\* C1 witness: two scan-placed Bottom comments share a row, and a comment
\* placed by the fallback lies between them in the output.
C1_Witness ==
    \E i, j, m \in 1..Len(events[FALSE]) :
        /\ SharedRowPair(FALSE, i, j)
        /\ Pos(events[FALSE][i].c) = 2
        /\ i < m /\ m < j
        /\ events[FALSE][m].via = "fallback"
        /\ Pos(events[FALSE][m].c) = 2

\* The comment ProcessComments handles next
Handling == pc = "process" /\ idx < Len(comments)
Candidate == comments[idx + 1]

\* Sub-condition (a): the occupant's appearance_time is later than
\* candidate.appearance_time - duration_scroll * (1 - stage_width / (candidate.width + stage_width))
RuleA(occ, c) ==
    RLt(RSub(R(Timeline(c)),
             RMul(R(cfg.duration_marquee),
                  RSub(R(1), RDiv(R(cfg.width), RAdd(Width(c), R(cfg.width)))))),
        R(Timeline(occ)))

\* Sub-condition (b): occupant.appearance_time
\* + occupant.width * duration_scroll / (occupant.width + stage_width)
\* is later than candidate.appearance_time
RuleB(occ, c) ==
    RLt(R(Timeline(c)),
        RAdd(R(Timeline(occ)),
             RDiv(RMul(Width(occ), R(cfg.duration_marquee)),
                  RAdd(Width(occ), R(cfg.width)))))

\* The length of the free run from `row` for a comment of height h, when
\* Blocking(i) says which rows are blocking: the rows counted are at most
\* ceil(h) and end at the usable height, and the run stops at the first
\* blocking row
FreeRun(Blocking(_), h, row) ==
    LET a == Ceil(h)
        b == UsableHeight(cfg) - row
        lim == IF a < b THEN (IF a < 0 THEN 0 ELSE a) ELSE (IF b < 0 THEN 0 ELSE b)
    IN  CHOOSE n \in 0..lim :
            /\ \A i \in row..(row + n - 1) : ~Blocking(i)
            /\ n = lim \/ Blocking(row + n)

\* C2: for a Scroll or ScrollReverse candidate (on a stage of positive width,
\* where both quotients are defined), the free run TestFreeRows returns from
\* any row counts an occupied row as free exactly when sub-conditions (a) and
\* (b) are both false, and stops at the first row where one of them holds.
C2_ScrollRule ==
    (Handling /\ Pos(Candidate) \in {0, 3} /\ cfg.width > 0) =>
        \A r \in BOOLEAN : \A row \in 0..UsableHeight(cfg) :
            LET grid == rows[r][Pos(Candidate)]
                Blocking(i) == /\ grid[i] # None
                               /\ RuleA(grid[i], Candidate) \/ RuleB(grid[i], Candidate)
            IN  TestFreeRows(rows[r], Candidate, row, cfg)
                    = FreeRun(Blocking, Height(Candidate), row)

\* C2 witness: a Scroll candidate meets an occupied row that counts as free
\* (both sub-conditions false) and an occupied row that is blocking.
C2_Witness ==
    /\ Handling /\ Pos(Candidate) = 0 /\ cfg.width > 0
    /\ RLt(R(0), Height(Candidate))
    /\ \E i, j \in 0..(UsableHeight(cfg) - 1) :
        LET grid == rows[FALSE][0]
        IN  /\ grid[i] # None /\ grid[j] # None
            /\ ~RuleA(grid[i], Candidate) /\ ~RuleB(grid[i], Candidate)
            /\ TestFreeRows(rows[FALSE], Candidate, i, cfg) >= 1
            /\ RuleB(grid[j], Candidate)
            /\ TestFreeRows(rows[FALSE], Candidate, j, cfg) = 0

\* The denominators of the threshold arithmetic
CandidateDenZero(c) == RIsZero(RAdd(Width(c), R(cfg.width)))
OccupantDenZero(occ) == RIsZero(RAdd(Width(occ), R(cfg.width)))

\* C9 as stated: with a zero denominator the sub-condition that divides by it
\* does not apply, so an occupied row is blocking only on account of a
\* sub-condition whose quotient is defined.
C9_ZeroDenominatorRuleOff ==
    (Handling /\ Pos(Candidate) \in {0, 3}) =>
        \A r \in BOOLEAN : \A row \in 0..UsableHeight(cfg) :
            LET grid == rows[r][Pos(Candidate)]
                Blocking(i) ==
                    /\ grid[i] # None
                    /\ \/ ~CandidateDenZero(Candidate) /\ RuleA(grid[i], Candidate)
                       \/ ~OccupantDenZero(grid[i]) /\ RuleB(grid[i], Candidate)
            IN  TestFreeRows(rows[r], Candidate, row, cfg)
                    = FreeRun(Blocking, Height(Candidate), row)

\* C9 amended: no exception escapes TestFreeRows (it returns a row count); a
\* zero occupant denominator switches sub-condition (b) off; a zero candidate
\* denominator does not switch (a) off: (a) is then taken with the threshold
\* candidate.appearance_time - duration_scroll.
C9_ZeroDenominatorFallback ==
    (Handling /\ Pos(Candidate) \in {0, 3}) =>
        \A r \in BOOLEAN : \A row \in 0..UsableHeight(cfg) :
            LET grid == rows[r][Pos(Candidate)]
                Blocking(i) ==
                    /\ grid[i] # None
                    /\ \/ IF CandidateDenZero(Candidate)
                          THEN Timeline(grid[i])
                                 > Timeline(Candidate) - cfg.duration_marquee
                          ELSE RuleA(grid[i], Candidate)
                       \/ ~OccupantDenZero(grid[i]) /\ RuleB(grid[i], Candidate)
            IN  /\ TestFreeRows(rows[r], Candidate, row, cfg) \in 0..UsableHeight(cfg)
                /\ TestFreeRows(rows[r], Candidate, row, cfg)
                    = FreeRun(Blocking, Height(Candidate), row)

\* C9 witness: both denominators are zero and the row is blocking by the
\* threshold candidate.appearance_time - duration_scroll alone.
C9_Witness ==
    /\ Handling /\ Pos(Candidate) = 0
    /\ CandidateDenZero(Candidate)
    /\ rows[FALSE][0][0] # None
    /\ OccupantDenZero(rows[FALSE][0][0])
    /\ TestFreeRows(rows[FALSE], Candidate, 0, cfg) = 0

\* The scan of the run with reduced = r runs out of rows for comment c
Exhausted(r, c) == ~ScanFrom(rows[r], c, cfg, 0)[1]

\* The rows of [0, row_max], row_max = usable_height - height
RowsToRowMax(c) == {i \in 0..UsableHeight(cfg) : RLe(R(i), RowMax(c, cfg))}

\* C3 as stated: when the scan of the run without reduction is
\* collision-exhausted (and [0, row_max] has a row), FindAlternativeRow returns
\* the first empty row of [0, row_max], or else a row of [0, row_max] whose
\* occupant has the minimum appearance_time of that range.
C3_FallbackRangeToRowMax ==
    (/\ Handling /\ IsLane(Candidate) /\ ~Skip(Candidate, cfg)
     /\ Exhausted(FALSE, Candidate) /\ RowsToRowMax(Candidate) # {}) =>
        LET grid == rows[FALSE][Pos(Candidate)]
            range == RowsToRowMax(Candidate)
            empty == {i \in range : grid[i] = None}
            res == FindAlternativeRow(rows[FALSE], Candidate, cfg)
        IN  /\ res \in range
            /\ IF empty # {}
               THEN res \in empty /\ \A i \in empty : res <= i
               ELSE \A i \in range : Timeline(grid[res]) <= Timeline(grid[i])

\* C4: handling one comment, the run with reduction never has more Dialogue
\* lines than the run without; a lane comment that passes the filters adds
\* exactly one line to the run without reduction; and a lane comment whose
\* scan is collision-exhausted in the run with reduction adds no line to it.
C4_ReducedEmitsNoMore ==
    [][(pc = "process" /\ idx' = idx + 1) =>
        LET c == comments[idx + 1]
        IN  /\ Len(events'[TRUE]) <= Len(events'[FALSE])
            /\ (IsLane(c) /\ ~Skip(c, cfg))
                 => Len(events'[FALSE]) = Len(events[FALSE]) + 1
            /\ (IsLane(c) /\ ~Skip(c, cfg) /\ Exhausted(TRUE, c))
                 => events'[TRUE] = events[TRUE]
            /\ (IsLane(c) /\ Skip(c, cfg))
                 => events'[FALSE] = events[FALSE] /\ events'[TRUE] = events[TRUE]]_vars

\* C4 witness: a finished run in which reduction dropped a comment that the
\* run without reduction force-placed, and a filter dropped a lane comment.
C4_Witness ==
    /\ pc = "done"
    /\ Len(events[TRUE]) < Len(events[FALSE])
    /\ \E i \in 1..Len(events[FALSE]) : events[FALSE][i].via = "fallback"
    /\ \E i \in 1..Len(comments) : IsLane(comments[i]) /\ Skip(comments[i], cfg)

\* Python's order on the key (appearance_time, submission_time, sequence)
KeyLt(a, b) ==
    \/ Timeline(a) < Timeline(b)
    \/ Timeline(a) = Timeline(b) /\ Timestamp(a) < Timestamp(b)
    \/ Timeline(a) = Timeline(b) /\ Timestamp(a) = Timestamp(b) /\ SeqNo(a) < SeqNo(b)

\* C5: ProcessComments handles the comments (comments[1], comments[2], ...)
\* and writes their Dialogue lines in ascending order of appearance_time,
\* ties in ascending submission_time, then ascending sequence.
C5_HandledInKeyOrder ==
    pc \in {"process", "done"} =>
        /\ \A i, j \in 1..Len(comments) :
              i < j => ~KeyLt(comments[j], comments[i])
        /\ \A r \in BOOLEAN : \A i, j \in 1..Len(events[r]) :
              i < j => ~KeyLt(events[r][j].c, events[r][i].c)

\* C5 witness: a finished run of three Dialogue lines; the first two tie in
\* the time and are ordered by the timestamp against their sequence, the last
\* two tie in time and timestamp and are ordered by the sequence.
C5_Witness ==
    /\ pc = "done"
    /\ Len(events[FALSE]) = 3
    /\ LET a == events[FALSE][1].c
           b == events[FALSE][2].c
           c == events[FALSE][3].c
       IN  /\ Timeline(a) = Timeline(b) /\ Timestamp(a) < Timestamp(b)
           /\ SeqNo(a) > SeqNo(b)
           /\ Timeline(b) = Timeline(c) /\ Timestamp(b) = Timestamp(c)
           /\ SeqNo(b) < SeqNo(c)

\* C6 as stated: no two comment records of the list carry the same sequence
\* value, and in reading order (the list before it is sorted) the sequence
\* values increase.
C6_SequenceUnique ==
    \A i, j \in 1..Len(comments) :
        i < j => /\ SeqNo(comments[i]) # SeqNo(comments[j])
                 /\ pc = "read" => SeqNo(comments[i]) < SeqNo(comments[j])

\* C7 as stated: a comment of any mode whose text matches one of the filters
\* has no Dialogue line and marks no cell of a lane grid.
C7_FilteredNeverEmitted ==
    \A r \in BOOLEAN :
        /\ \A i \in 1..Len(events[r]) : ~Skip(events[r][i].c, cfg)
        /\ \A p \in 0..3 : \A i \in 0..UsableHeight(cfg) :
              rows[r][p][i] # None => ~Skip(rows[r][p][i], cfg)

\* C8 as stated: a positioned comment with a malformed payload writes no
\* Dialogue line, and no exception leaves ProcessComments, so that the
\* comments after it are handled (the runs of this specification read one
\* file: pc = "error" is an exception leaving ProcessComments).
C8_MalformedPayloadDropped ==
    /\ pc # "error"
    /\ \A r \in BOOLEAN : \A i \in 1..Len(events[r]) :
          Pos(events[r][i].c) = BiliPos => PayloadRaises(Text(events[r][i].c)) = ""

\* A lane comment higher than the usable height
Oversize(c) == IsLane(c) /\ RLt(R(UsableHeight(cfg)), Height(c))

\* C10: the scan never places a lane comment whose height exceeds the usable
\* height, whatever the grid holds: every such comment handled has exactly one
\* Dialogue line, written by the fallback, in the run without reduction and
\* none in the run with reduction; and the scan of the comment handled next is
\* exhausted in both runs.
C10_OversizeNeverScanPlaced ==
    /\ \A r \in BOOLEAN : \A i \in 1..Len(events[r]) :
          Oversize(events[r][i].c) => (~r /\ events[r][i].via = "fallback")
    /\ Cardinality({i \in 1..Len(events[FALSE]) : Oversize(events[FALSE][i].c)})
          = Cardinality({j \in 1..idx : Oversize(comments[j]) /\ ~Skip(comments[j], cfg)})
    /\ (Handling /\ Oversize(Candidate)) =>
          \A r \in BOOLEAN : Exhausted(r, Candidate)

\* C10 witness: a finished run in which an oversize comment met a grid that
\* was not empty and was force-placed, and the run with reduction dropped it.
C10_Witness ==
    /\ pc = "done"
    /\ \E i \in 2..Len(events[FALSE]) :
          /\ Oversize(events[FALSE][i].c)
          /\ events[FALSE][i].via = "fallback"
          /\ \A j \in 1..Len(events[TRUE]) : events[TRUE][j].c # events[FALSE][i].c

\* C11 as stated: for a colour other than pure black and pure white, the
\* colour tag of every Dialogue line is the BT.601 to BT.709 matrix conversion
\* when the stage of the run is at least 1280 x 576, and the plain BGR swap of
\* the comment's colour when the stage is smaller.
C11_MatrixOnlyAtOrAboveThreshold ==
    \A r \in BOOLEAN : \A j \in 1..Len(events[r]) :
        LET e == events[r][j]
            rgb == Color(e.c)
        IN  rgb \notin {Black, White} =>
                e.color = IF cfg.width >= 1280 /\ cfg.height >= 576
                          THEN MatrixBGR(rgb) ELSE SwapBGR(rgb)

\* The sizes of the last call of GetZoomFactor
LastSource == Cached_Size[1]
LastTarget == Cached_Size[2]

\* C12 as stated: when at least one of the four dimensions of the pair
\* (SourceSize, TargetSize) is zero, GetZoomFactor returns the identity
\* (1, 0, 0).
C12_ZeroDimensionIdentity ==
    (/\ Cached_Size # None
     /\ \/ LastSource[1] = 0 \/ LastSource[2] = 0
        \/ LastTarget[1] = 0 \/ LastTarget[2] = 0) =>
        Cached_Result = Identity

\* C12 amended: GetZoomFactor returns a triple for every pair (no division
\* error leaves it); the triple is the identity when a height is zero or
\* both widths are zero; when only the target width is zero it is
\* (0, 0, TargetHeight / 2), and when only the source width is zero it is
\* (TargetHeight / SourceHeight, TargetWidth / 2, 0).
C12_ZeroDenominatorIdentity ==
    Cached_Size # None =>
        /\ Cached_Result # None /\ Len(Cached_Result) = 3
        /\ (\/ LastSource[2] = 0 \/ LastTarget[2] = 0
            \/ (LastSource[1] = 0 /\ LastTarget[1] = 0)) =>
                Cached_Result = Identity
        /\ (/\ LastSource[2] # 0 /\ LastTarget[2] # 0
            /\ LastSource[1] # 0 /\ LastTarget[1] = 0) =>
                Cached_Result = <<R(0), R(0), Frac(LastTarget[2], 2)>>
        /\ (/\ LastSource[2] # 0 /\ LastTarget[2] # 0
            /\ LastSource[1] = 0 /\ LastTarget[1] # 0) =>
                Cached_Result = <<Frac(LastTarget[2], LastSource[2]),
                                  Frac(LastTarget[1], 2), R(0)>>

\* C12 witness: a call with a source of positive dimensions and a target of
\* zero height has returned the identity.
C12_Witness ==
    /\ Cached_Size # None
    /\ LastSource[1] > 0 /\ LastSource[2] > 0
    /\ LastTarget[1] > 0 /\ LastTarget[2] = 0
    /\ Cached_Result = Identity

\* The number of rows a call of TestFreeRows for comment c from `row` has
\* examined when it returns freerows: its loop examines one row per pass and
\* counts it unless it breaks on it, and it has broken exactly when neither
\* half of its guard (row < rowmax, res < c[7]) is false on return
Examined(c, row, freerows) ==
    IF row + freerows < UsableHeight(cfg) /\ RLt(R(freerows), Height(c))
    THEN freerows + 1 ELSE freerows

\* The row after an unsuccessful probe
Advance(probe) == probe[1] + (IF probe[2] # 0 THEN probe[2] ELSE 1)

\* C13: for the lane comment being handled and the grids of either run, the
\* scan is a finite sequence of probes starting at row 0: each probe examines
\* at most ceil(height) rows; after an unsuccessful probe the next one is at
\* row + freerows, or row + 1 when freerows is 0, a strictly larger row; the
\* scan ends with a placement at the row of the last probe or with
\* row > row_max; and there are at most row_max + 1 probes (none when
\* row_max < 0).
C13_ScanTerminates ==
    (Handling /\ IsLane(Candidate) /\ ~Skip(Candidate, cfg)) =>
        \A r \in BOOLEAN :
            LET c == Candidate
                s == ScanFrom(rows[r], c, cfg, 0)
                probes == s[3]
                n == Len(probes)
                ok(j) == RLe(Height(c), R(probes[j][2]))
            IN  /\ \A j \in 1..n :
                    /\ probes[j][2] \in 0..UsableHeight(cfg)
                    /\ Examined(c, probes[j][1], probes[j][2]) <= Ceil(Height(c))
                    /\ RLe(R(probes[j][1]), RowMax(c, cfg))
                /\ n > 0 => probes[1][1] = 0
                /\ \A j \in 1..(n - 1) :
                    /\ ~ok(j)
                    /\ probes[j + 1][1] = Advance(probes[j])
                    /\ probes[j + 1][1] > probes[j][1]
                /\ IF s[1]
                   THEN n > 0 /\ ok(n) /\ s[2] = probes[n][1]
                   ELSE /\ RLt(RowMax(c, cfg), R(s[2]))
                        /\ s[2] = IF n = 0 THEN 0 ELSE Advance(probes[n])
                        /\ n > 0 => ~ok(n)
                /\ IF RLt(RowMax(c, cfg), R(0)) THEN n = 0
                   ELSE RLe(R(n), RAdd(RowMax(c, cfg), R(1)))

\* C13 witness: the scan for a comment of fractional height takes two probes
\* or more, one that advances by a free run of at least one row and one that
\* advances by 1 from a free run of 0.
C13_Witness ==
    /\ Handling /\ IsLane(Candidate) /\ ~Skip(Candidate, cfg)
    /\ Height(Candidate)[2] > 1
    /\ LET probes == ScanFrom(rows[FALSE], Candidate, cfg, 0)[3]
       IN  /\ Len(probes) >= 2
           /\ \E j \in 1..Len(probes) :
                probes[j][2] >= 1 /\ RLt(R(probes[j][2]), Height(Candidate))
           /\ \E j \in 1..Len(probes) : probes[j][2] = 0

\* The cells [row, row + ceil(height)) of a grid, cut off at its last cell
MarkedCells(c, row) ==
    {i \in 0..UsableHeight(cfg) : row <= i /\ i < row + Ceil(Height(c))}

\* C14: a step that handles a comment changes the grids of a run only when it
\* writes a line for a lane comment (placed by scan or by fallback): then it
\* sets exactly the cells [row, row + ceil(height)) of the grid of the
\* comment's mode, cut off at the end of the grid, to the comment, leaves
\* every other cell of the four grids as it was, and raises no error.  A
\* filtered comment, a comment dropped under reduction and a positioned
\* comment change no cell, nor does any other step; so a cell that holds a
\* comment never becomes empty again.
C14_FrameOfPlacement ==
    [][\A r \in BOOLEAN :
        /\ IF pc = "process" /\ idx' = idx + 1
              /\ IsLane(comments[idx + 1])
              /\ Len(events'[r]) = Len(events[r]) + 1
           THEN LET c == comments[idx + 1]
                    e == events'[r][Len(events'[r])]
                IN  /\ e.c = c /\ e.via \in {"scan", "fallback"}
                    /\ pc' = "process"
                    /\ \A p \in 0..3 : \A i \in 0..UsableHeight(cfg) :
                        rows'[r][p][i] =
                            IF p = Pos(c) /\ i \in MarkedCells(c, e.row)
                            THEN c ELSE rows[r][p][i]
           ELSE rows'[r] = rows[r]
        /\ \A p \in 0..3 : \A i \in 0..UsableHeight(cfg) :
            rows[r][p][i] # None => rows'[r][p][i] # None
      ]_vars

\* C14 witness: the run is over; without reduction a comment taller than the
\* grid was placed by fallback and fills the grid of its mode to the last
\* cell, with reduction it was dropped and that grid is empty; a filtered
\* comment and a positioned comment were handled as well.
C14_Witness ==
    /\ pc = "done"
    /\ \E j \in 1..Len(events[FALSE]) :
        LET e == events[FALSE][j]
        IN  /\ e.via = "fallback"
            /\ e.row + Ceil(Height(e.c)) > UsableHeight(cfg) + 1
            /\ \A i \in 0..UsableHeight(cfg) : rows[FALSE][Pos(e.c)][i] = e.c
            /\ \A i \in 0..UsableHeight(cfg) : rows[TRUE][Pos(e.c)][i] = None
    /\ \E j \in 1..Len(comments) : IsLane(comments[j]) /\ Skip(comments[j], cfg)
    /\ \E j \in 1..Len(events[TRUE]) : events[TRUE][j].via = "bilipos"

====
